---- MODULE Spec2Model ----
(***************************************************************************)
(* File Investigator dashboard: the page (src/src/app/page.tsx), the file  *)
(* intake (src/src/components/file-upload.tsx), the result panels          *)
(* (src/src/components/dashboard-panels.tsx) and the tool cards of the     *)
(* chat (tool-cards.tsx), with the remote agent that writes the shared     *)
(* state and sends tool-call events from its side.                         *)
(*                                                                         *)
(* React state is modelled as it is scheduled: `state` is the value held   *)
(* by useCoAgent after the latest setState, `view` is the value of the     *)
(* last render (the props of the panels and the `state` the callbacks of   *)
(* that render close over), `stateRef` is stateRef.current, which the      *)
(* effect of page.tsx:35-37 sets after a render has been committed.  A     *)
(* write to the shared state, local or remote, is rendered by a later      *)
(* step: other events may be handled in between.                           *)
(*                                                                         *)
(* Presentation is left out: class names, icons and the flavour text shown *)
(* while a file loads (the call that sets it is recorded, the text is not  *)
(* kept).                                                                  *)
(***************************************************************************)
EXTENDS Integers, Sequences, FiniteSets, TLC

VARIABLES state, view, stateRef, toastMessage, timers,
          isDragging, isLoading, reads,
          editingId, editContent,
          msgs, nEvents, last,
          toolCall, expanded, responded, responses

vars == <<state, view, stateRef, toastMessage, timers,
          isDragging, isLoading, reads,
          editingId, editContent,
          msgs, nEvents, last,
          toolCall, expanded, responded, responses>>

pageVars == <<state, view, toastMessage, timers>>
uploadVars == <<isDragging, isLoading, reads>>
tweetVars == <<editingId, editContent>>
chatVars == <<toolCall, expanded, responded, responses>>

-----------------------------------------------------------------------------
(* Bounds of the model *)

\* user and agent events in one run
MaxEvents == 4
\* user and agent events in one run continued from InitTweets
MaxTweetEvents == 3
\* FileReader reads in flight at once
MaxReads == 2
\* remote writes in flight at once
MaxMsgs == 1
\* pending setTimeout callbacks
MaxTimers == 2

-----------------------------------------------------------------------------
(* Values *)

\* null in a slot that otherwise holds an object
NULL == [null |-> TRUE]
\* null in a slot that otherwise holds a string
NullStr == "<null>"

PDF == "application/pdf"

MAX_SIZE == 10 * 1024 * 1024

MaxLength == 280

LOADING_MESSAGES ==
    << "Checking flight logs...",
       "Cross-referencing guest lists...",
       "Scanning visitor records...",
       "Verifying document authenticity...",
       "Looking for suspicious black bars..." >>

\* A string is kept as what it says (txt) and how long it is (len).
Str(txt, len) == [txt |-> txt, len |-> len]

INITIAL_STATE ==
    [ uploadedFile    |-> NULL,
      findings        |-> <<>>,
      redactedContent |-> <<>>,
      tweets          |-> <<>>,
      summary         |-> NULL,
      analysisStatus  |-> "idle" ]

\* The files a user may drop or pick: name, browser-reported MIME type, byte
\* size and the bytes themselves.
Candidates ==
    { [name |-> "a.pdf", type |-> PDF,          size |-> 0,            bytes |-> "bytes-a"],
      [name |-> "b.txt", type |-> PDF,          size |-> MAX_SIZE,     bytes |-> "bytes-b"],
      [name |-> "c.pdf", type |-> "text/plain", size |-> 1,            bytes |-> "bytes-c"],
      [name |-> "d.pdf", type |-> PDF,          size |-> MAX_SIZE + 1, bytes |-> "bytes-d"] }

\* FileReader.readAsDataURL: "data:<type>;base64,<payload>", kept as the
\* pieces split(",") yields.
Base64(bytes) == [base64of |-> bytes]
readAsDataURL(file) == << <<"data:", file.type, ";base64">>, Base64(file.bytes) >>

UploadedFile(file) ==
    [ name     |-> file.name,
      base64   |-> readAsDataURL(file)[2],
      mimeType |-> file.type ]

RemoveAt(s, i) == [j \in 1..(Len(s) - 1) |-> IF j < i THEN s[j] ELSE s[j + 1]]

-----------------------------------------------------------------------------
(* The record of the last handler that ran: its name, its arguments, the   *)
(* shared state it found and the calls it made.                            *)

Call(fn, val) == [fn |-> fn, val |-> val]

Handled(op, arg, calls) == [op |-> op, arg |-> arg, pre |-> state, calls |-> calls]

NoHandler == [op |-> "none", arg |-> NULL, pre |-> NULL, calls |-> <<>>]

SetStateCalls(l) == SelectSeq(l.calls, LAMBDA c : c.fn = "setState")

-----------------------------------------------------------------------------
(* page.tsx *)

\* handleFileUpload without the reset of the results
handleFileUploadValueNoReset(captured, file) ==
    [ captured EXCEPT
        !.uploadedFile    = file,
        !.analysisStatus  = IF file # NULL THEN "idle" ELSE "idle" ]

\* the value handleFileUpload passes to setState; `captured` is the `state`
\* of the render whose callback runs
handleFileUploadValue(captured, file) ==
    [ captured EXCEPT
        !.uploadedFile    = file,
        !.analysisStatus  = IF file # NULL THEN "idle" ELSE "idle",
        !.findings        = <<>>,
        !.redactedContent = <<>>,
        !.tweets          = <<>>,
        !.summary         = NULL ]

Init ==
    /\ state = INITIAL_STATE
    /\ view = INITIAL_STATE
    /\ stateRef = INITIAL_STATE
    /\ toastMessage = NullStr
    /\ timers = 0
    /\ isDragging = FALSE
    /\ isLoading = FALSE
    /\ reads = <<>>
    /\ editingId = NullStr
    /\ editContent = Str("", 0)
    /\ msgs = <<>>
    /\ nEvents = 0
    /\ last = NoHandler
    /\ toolCall = NULL
    /\ expanded = FALSE
    /\ responded = NullStr
    /\ responses = <<>>

Event == /\ nEvents < MaxEvents
         /\ nEvents' = nEvents + 1

\* React renders the page with the current value of useCoAgent; the effect of
\* the previous render, when still pending, is flushed first
Render ==
    /\ view # state
    /\ stateRef' = view
    /\ view' = state
    /\ last' = NoHandler
    /\ UNCHANGED <<chatVars, state, toastMessage, timers, uploadVars, tweetVars, msgs, nEvents>>

\* A handler of a user event that sets component state makes React render
\* before the event ends, and React runs the effect still pending from the
\* last render first: the handler itself has read stateRef.current before.
flushEffect(rendersNow) ==
    stateRef' = IF rendersNow THEN view ELSE stateRef

\* useEffect(() => { stateRef.current = state }, [state])
SyncStateRef ==
    /\ stateRef # view
    /\ stateRef' = view
    /\ last' = NoHandler
    /\ UNCHANGED <<chatVars, state, view, toastMessage, timers, uploadVars, tweetVars, msgs, nEvents>>

-----------------------------------------------------------------------------
(* file-upload.tsx *)

\* handleFile: the two validations, then the start of the read.  The read
\* keeps the onFileUpload the running handleFile closes over, which is the
\* handleFileUpload of the last render: it is kept as the `state` that
\* callback closes over.  m is the index Math.random picks.
notPdf(file) == file.type # PDF

\* a limit that a file of exactly MAX_SIZE bytes does not pass
tooLargeAtLimit(file) == file.size >= MAX_SIZE

\* a limit ten times the one of handleFile
tooLargeTenfold(file) == file.size > MAX_SIZE * 10

tooLarge(file) == file.size > MAX_SIZE

handleFileCalls(file, m) ==
    IF notPdf(file)
    THEN << Call("alert", "Please upload a PDF file") >>
    ELSE IF tooLarge(file)
    THEN << Call("alert", "File too large. Maximum size is 10MB.") >>
    ELSE << Call("setIsLoading", TRUE),
            Call("setLoadingMessage", LOADING_MESSAGES[m]),
            Call("readAsDataURL", file) >>

handleFile(file, m) ==
    /\ IF notPdf(file) \/ tooLarge(file)
       THEN UNCHANGED <<isLoading, reads>>
       ELSE /\ Len(reads) < MaxReads
            /\ isLoading' = TRUE
            /\ reads' = Append(reads, [file |-> file, onFileUpload |-> view])
    /\ last' = Handled("handleFile", file, handleFileCalls(file, m))

\* onDrop of the drop zone, which is rendered while currentFile is null
handleDrop ==
    \E file \in Candidates, m \in 1..Len(LOADING_MESSAGES) :
       /\ view.uploadedFile = NULL
       /\ Event
       /\ isDragging' = FALSE
       /\ handleFile(file, m)
       /\ flushEffect(isDragging \/ ~(notPdf(file) \/ tooLarge(file)))
       /\ UNCHANGED <<chatVars, pageVars, tweetVars, msgs>>

\* onChange of the file picker, which is rendered while currentFile is null
\* and the component is not loading
onChange ==
    \E file \in Candidates, m \in 1..Len(LOADING_MESSAGES) :
       /\ view.uploadedFile = NULL
       /\ ~isLoading
       /\ Event
       /\ handleFile(file, m)
       /\ flushEffect(~(notPdf(file) \/ tooLarge(file)))
       /\ UNCHANGED <<chatVars, pageVars, isDragging, tweetVars, msgs>>

handleDragOver ==
    /\ view.uploadedFile = NULL
    /\ ~isDragging
    /\ Event
    /\ isDragging' = TRUE
    /\ last' = Handled("handleDragOver", NULL, << Call("setIsDragging", TRUE) >>)
    /\ flushEffect(TRUE)
    /\ UNCHANGED <<chatVars, pageVars, isLoading, reads, tweetVars, msgs>>

handleDragLeave ==
    /\ view.uploadedFile = NULL
    /\ isDragging
    /\ Event
    /\ isDragging' = FALSE
    /\ last' = Handled("handleDragLeave", NULL, << Call("setIsDragging", FALSE) >>)
    /\ flushEffect(TRUE)
    /\ UNCHANGED <<chatVars, pageVars, isLoading, reads, tweetVars, msgs>>

\* reader.onload of one of the reads in flight: the upload reaches the page
\* through the callback the read was started with
readerOnload ==
    \E i \in 1..Len(reads) :
       LET r    == reads[i]
           file == UploadedFile(r.file)
           next == handleFileUploadValue(r.onFileUpload, file)
       IN  /\ state' = next
           /\ isLoading' = FALSE
           /\ reads' = RemoveAt(reads, i)
           /\ last' = Handled("handleFileUpload",
                              [file |-> file, captured |-> r.onFileUpload],
                              << Call("setState", next), Call("setIsLoading", FALSE) >>)
           /\ UNCHANGED <<chatVars, view, stateRef, toastMessage, timers, isDragging,
                          tweetVars, msgs, nEvents>>

\* the clear button of the file card, rendered while currentFile is not null
clearFile ==
    LET next == handleFileUploadValue(view, NULL)
    IN  /\ view.uploadedFile # NULL
        /\ Event
        /\ state' = next
        /\ last' = Handled("handleFileUpload",
                           [file |-> NULL, captured |-> view],
                           << Call("setState", next) >>)
        /\ UNCHANGED <<chatVars, view, stateRef, toastMessage, timers, uploadVars, tweetVars, msgs>>

-----------------------------------------------------------------------------
(* page.tsx: the toast and the tweet handlers *)

\* the value handlePostTweet passes to setState, computed from stateRef.current
handlePostTweetValue(ref, id) ==
    [ ref EXCEPT !.tweets =
        [ i \in 1..Len(ref.tweets) |->
            IF ref.tweets[i].id = id
            THEN [ref.tweets[i] EXCEPT !.posted = TRUE]
            ELSE ref.tweets[i] ] ]

\* the value handleEditTweet passes to setState, computed from stateRef.current
handleEditTweetValue(ref, id, newContent) ==
    [ ref EXCEPT !.tweets =
        [ i \in 1..Len(ref.tweets) |->
            IF ref.tweets[i].id = id
            THEN [ref.tweets[i] EXCEPT !.content = newContent]
            ELSE ref.tweets[i] ] ]

COPIED == "Tweet copied! Handle with care..."
POSTED == "Tweet posted! The truth is out there."

\* the tweets whose buttons (Edit, Copy, Post) are rendered, and the tweets
\* whose textarea (with Cancel and Save) is rendered
Editing(i) == editingId = view.tweets[i].id
Rendered == 1..Len(view.tweets)

\* handleCopyTweet that also writes the shared state back
handleCopyTweetWrites ==
    \E i \in Rendered :
       LET content == view.tweets[i].content
       IN  /\ ~Editing(i)
           /\ Event
           /\ timers < MaxTimers
           /\ state' = stateRef
           /\ toastMessage' = COPIED
           /\ timers' = timers + 1
           /\ last' = Handled("handleCopyTweet", content,
                              << Call("clipboard.writeText", content),
                                 Call("setState", stateRef),
                                 Call("setToastMessage", COPIED),
                                 Call("setTimeout", 2000) >>)
           /\ flushEffect(toastMessage # COPIED)
           /\ UNCHANGED <<chatVars, view, uploadVars, tweetVars, msgs>>

\* the Copy button of a rendered tweet
handleCopyTweet ==
    \E i \in Rendered :
       LET content == view.tweets[i].content
       IN  /\ ~Editing(i)
           /\ Event
           /\ timers < MaxTimers
           /\ toastMessage' = COPIED
           /\ timers' = timers + 1
           /\ last' = Handled("handleCopyTweet", content,
                              << Call("clipboard.writeText", content),
                                 Call("setToastMessage", COPIED),
                                 Call("setTimeout", 2000) >>)
           /\ flushEffect(toastMessage # COPIED)
           /\ UNCHANGED <<chatVars, state, view, uploadVars, tweetVars, msgs>>

\* the Post button of a rendered tweet
handlePostTweet ==
    \E i \in Rendered :
       LET id   == view.tweets[i].id
           next == handlePostTweetValue(stateRef, id)
       IN  /\ ~Editing(i)
           /\ Event
           /\ timers < MaxTimers
           /\ state' = next
           /\ toastMessage' = POSTED
           /\ timers' = timers + 1
           /\ last' = Handled("handlePostTweet", id,
                              << Call("setState", next),
                                 Call("setToastMessage", POSTED),
                                 Call("setTimeout", 2000) >>)
           /\ flushEffect(toastMessage # POSTED)
           /\ UNCHANGED <<chatVars, view, uploadVars, tweetVars, msgs>>

\* a callback of setTimeout(() => setToastMessage(null), 2000)
timeout ==
    /\ timers > 0
    /\ timers' = timers - 1
    /\ toastMessage' = NullStr
    /\ last' = NoHandler
    /\ UNCHANGED <<chatVars, state, view, stateRef, uploadVars, tweetVars, msgs, nEvents>>

-----------------------------------------------------------------------------
(* dashboard-panels.tsx: TweetsPanel *)

\* startEdit that keeps the draft of the edit under way
startEditKeepsDraft ==
    \E i \in Rendered :
       LET tweet == view.tweets[i]
           draft == IF editingId = NullStr THEN tweet.content ELSE editContent
       IN  /\ ~Editing(i)
           /\ Event
           /\ editingId' = tweet.id
           /\ editContent' = draft
           /\ last' = Handled("startEdit",
                              [tweet |-> tweet, editing |-> editingId, draft |-> editContent],
                              << Call("setEditingId", tweet.id),
                                 Call("setEditContent", draft) >>)
           /\ flushEffect(TRUE)
           /\ UNCHANGED <<chatVars, pageVars, uploadVars, msgs>>

\* the Edit button of a rendered tweet
startEdit ==
    \E i \in Rendered :
       LET tweet == view.tweets[i]
       IN  /\ ~Editing(i)
           /\ Event
           /\ editingId' = tweet.id
           /\ editContent' = tweet.content
           /\ last' = Handled("startEdit",
                              [tweet |-> tweet, editing |-> editingId, draft |-> editContent],
                              << Call("setEditingId", tweet.id),
                                 Call("setEditContent", tweet.content) >>)
           /\ flushEffect(TRUE)
           /\ UNCHANGED <<chatVars, pageVars, uploadVars, msgs>>

\* what the user may try to make of the draft: typed or pasted text, or the
\* draft with its last character deleted
DraftInputs(cur) ==
    { Str("typed", MaxLength), Str("typed", MaxLength + 1) }
       \cup (IF cur.len > 0 THEN { Str(cur.txt, cur.len - 1) } ELSE {})

\* a textarea without maxLength
textareaAcceptsAll(cur, v) == TRUE

\* <textarea maxLength={280}>: the control lets the user shorten the text, and
\* change it otherwise only within maxLength
textareaAccepts(cur, v) ==
    \/ v.len <= MaxLength
    \/ v.txt = cur.txt /\ v.len < cur.len

\* onChange of the textarea of a tweet in edit mode
setEditContent ==
    \E i \in Rendered :
       \E v \in DraftInputs(editContent) :
          /\ Editing(i)
          /\ v # editContent
          /\ textareaAccepts(editContent, v)
          /\ Event
          /\ editContent' = v
          /\ last' = Handled("setEditContent", v, << Call("setEditContent", v) >>)
          /\ flushEffect(TRUE)
          /\ UNCHANGED <<chatVars, pageVars, uploadVars, editingId, msgs>>

\* Save that leaves the write to a later flush
saveEditDeferred ==
    \E i \in Rendered :
       LET id == view.tweets[i].id
       IN  /\ Editing(i)
           /\ Event
           /\ editingId' = NullStr
           /\ last' = Handled("saveEdit", [id |-> id, newContent |-> editContent],
                              << Call("setEditingId", NullStr) >>)
           /\ flushEffect(TRUE)
           /\ UNCHANGED <<chatVars, pageVars, uploadVars, editContent, msgs>>

\* the Save button of a tweet in edit mode: saveEdit, and handleEditTweet
\* through onEdit
saveEdit ==
    \E i \in Rendered :
       LET id   == view.tweets[i].id
           next == handleEditTweetValue(stateRef, id, editContent)
       IN  /\ Editing(i)
           /\ Event
           /\ state' = next
           /\ editingId' = NullStr
           /\ last' = Handled("saveEdit", [id |-> id, newContent |-> editContent],
                              << Call("setState", next),
                                 Call("setEditingId", NullStr) >>)
           /\ flushEffect(TRUE)
           /\ UNCHANGED <<chatVars, view, toastMessage, timers, uploadVars, editContent, msgs>>

\* Cancel wired to the save path
cancelEditSaves ==
    \E i \in Rendered :
       LET id   == view.tweets[i].id
           next == handleEditTweetValue(stateRef, id, editContent)
       IN  /\ Editing(i)
           /\ Event
           /\ state' = next
           /\ editingId' = NullStr
           /\ editContent' = Str("", 0)
           /\ last' = Handled("cancelEdit", [id |-> editingId, draft |-> editContent],
                              << Call("setState", next),
                                 Call("setEditingId", NullStr),
                                 Call("setEditContent", Str("", 0)) >>)
           /\ flushEffect(TRUE)
           /\ UNCHANGED <<chatVars, view, toastMessage, timers, uploadVars, msgs>>

\* the Cancel button of a tweet in edit mode
cancelEdit ==
    \E i \in Rendered :
       /\ Editing(i)
       /\ Event
       /\ editingId' = NullStr
       /\ editContent' = Str("", 0)
       /\ last' = Handled("cancelEdit", [id |-> editingId, draft |-> editContent],
                          << Call("setEditingId", NullStr),
                             Call("setEditContent", Str("", 0)) >>)
       /\ flushEffect(TRUE)
       /\ UNCHANGED <<chatVars, pageVars, uploadVars, msgs>>

-----------------------------------------------------------------------------
(* The remote agent and the synchronization bridge *)

Finding(id, doc, severity) ==
    [id |-> id, title |-> doc, description |-> doc, severity |-> severity]

RedactedItem(id, doc, confidence) ==
    [id |-> id, location |-> "page 1", speculation |-> doc, confidence |-> confidence]

Tweet(id, doc, len) ==
    [id |-> id, content |-> Str(doc, len), posted |-> FALSE]

\* what the agent's tools may write for the document named doc
AgentWrites(doc) ==
    { [field |-> "findings",
       value |-> << Finding("f1", doc, "high"), Finding("f2", doc, "low") >>],
      [field |-> "redactedContent",
       value |-> << RedactedItem("r1", doc, 80) >>],
      [field |-> "tweets",
       value |-> << Tweet("t1", doc, 100), Tweet("t2", doc, MaxLength + 1) >>],
      [field |-> "tweets",
       value |-> << Tweet("t1", doc, 100), Tweet("t1", doc, MaxLength + 1) >>],
      [field |-> "summary",
       value |-> Str(doc, 10)],
      [field |-> "analysisStatus",
       value |-> "complete"] }

\* a tool of the agent, run on the document it was given, issues a write
agentWrite ==
    /\ state.uploadedFile # NULL
    /\ Len(msgs) < MaxMsgs
    /\ Event
    /\ \E w \in AgentWrites(state.uploadedFile.name) : msgs' = Append(msgs, w)
    /\ last' = NoHandler
    /\ UNCHANGED <<chatVars, pageVars, stateRef, uploadVars, tweetVars>>

\* the bridge delivers the oldest write in flight: the field is replaced
deliver ==
    /\ msgs # <<>>
    /\ state' = [state EXCEPT ![Head(msgs).field] = Head(msgs).value]
    /\ msgs' = Tail(msgs)
    /\ last' = NoHandler
    /\ UNCHANGED <<chatVars, view, stateRef, toastMessage, timers, uploadVars, tweetVars, nEvents>>

-----------------------------------------------------------------------------
(* dashboard-panels.tsx: what the four panels put on the screen *)

\* no empty-state message
NoMessage == "<none>"

\* findings as a panel that lists them last to first
FindingsPanelReversed(findings) ==
    IF Len(findings) = 0
    THEN [ message |-> "Nothing to see here... yet. Move along.", items |-> <<>> ]
    ELSE [ message |-> NoMessage,
           items   |-> [ i \in 1..Len(findings) |->
                           [ title       |-> findings[Len(findings) + 1 - i].title,
                             severity    |-> findings[Len(findings) + 1 - i].severity,
                             description |-> findings[Len(findings) + 1 - i].description ] ] ]

FindingsPanel(findings) ==
    IF Len(findings) = 0
    THEN [ message |-> "Nothing to see here... yet. Move along.", items |-> <<>> ]
    ELSE [ message |-> NoMessage,
           items   |-> [ i \in 1..Len(findings) |->
                           [ title       |-> findings[i].title,
                             severity    |-> findings[i].severity,
                             description |-> findings[i].description ] ] ]

RedactedPanel(redactedItems) ==
    IF Len(redactedItems) = 0
    THEN [ message |-> "No redactions found. This document is surprisingly transparent...",
           items   |-> <<>> ]
    ELSE [ message |-> NoMessage,
           items   |-> [ i \in 1..Len(redactedItems) |->
                           [ location    |-> redactedItems[i].location,
                             confidence  |-> redactedItems[i].confidence,
                             speculation |-> redactedItems[i].speculation ] ] ]

\* a tweet in edit mode shows the draft in the textarea, the others their
\* content and whether they are posted
TweetsPanel(tweets) ==
    IF Len(tweets) = 0
    THEN [ message |-> "No tweets yet. The truth wants to be shared...", items |-> <<>> ]
    ELSE [ message |-> NoMessage,
           items   |-> [ i \in 1..Len(tweets) |->
                           IF editingId = tweets[i].id
                           THEN [ textarea |-> editContent ]
                           ELSE [ content |-> tweets[i].content,
                                  posted  |-> tweets[i].posted ] ] ]

\* !summary: null and the empty string show the message
SummaryPanel(summary) ==
    IF summary = NULL
    THEN [ message |-> "Summary pending. File secured. Unlike some other files...",
           markdown |-> NULL ]
    ELSE IF summary.len = 0
    THEN [ message |-> "Summary pending. File secured. Unlike some other files...",
           markdown |-> NULL ]
    ELSE [ message |-> NoMessage, markdown |-> summary ]

\* the results grid of the page for a state s
Panels(s) ==
    [ findings |-> FindingsPanel(s.findings),
      redacted |-> RedactedPanel(s.redactedContent),
      tweets   |-> TweetsPanel(s.tweets),
      summary  |-> SummaryPanel(s.summary) ]

-----------------------------------------------------------------------------
(* tool-cards.tsx, and the renderer page.tsx registers for tool calls *)

Undefined == [undefined |-> TRUE]

\* JSON.stringify(v, null, 2): the value as formatted text
JSONstringify(v) == [json |-> v, indent |-> 2]

\* what a card leaves out of the DOM
Hidden == [hidden |-> TRUE]

\* the icon is a path of an svg: kept by the name of what it draws
TOOL_CONFIG ==
    [ update_findings |-> [icon        |-> "clipboard-check",
                           label       |-> "Populating Findings Panel",
                           loadingText |-> "Adding findings to dashboard..."],
      update_redacted |-> [icon        |-> "eye-off",
                           label       |-> "Populating Redacted Panel",
                           loadingText |-> "Adding speculations to dashboard..."],
      update_tweets   |-> [icon        |-> "chat",
                           label       |-> "Populating Tweets Panel",
                           loadingText |-> "Adding tweets to dashboard..."],
      update_summary  |-> [icon        |-> "document",
                           label       |-> "Populating Summary Panel",
                           loadingText |-> "Adding summary to dashboard..."] ]

\* what AnalysisProgressCard puts on the screen: config.icon is looked up
\* and not drawn, the card draws a check mark or a spinner
AnalysisProgressCard(toolName, status) ==
    LET config == IF toolName \in DOMAIN TOOL_CONFIG
                  THEN TOOL_CONFIG[toolName]
                  ELSE [icon |-> "bolt", label |-> toolName,
                        loadingText |-> "Processing..."]
        isComplete == status = "complete"
    IN  [ card     |-> "AnalysisProgressCard",
          complete |-> isComplete,
          icon     |-> IF isComplete THEN "check" ELSE "spinner",
          label    |-> config.label,
          text     |-> IF isComplete THEN "Complete" ELSE config.loadingText ]

\* a fallback card that shows arguments and result without being expanded
DefaultToolCardAlwaysOpen(name, status, args, result, isExpanded) ==
    [ card      |-> "DefaultToolCard",
      name      |-> name,
      status    |-> status,
      complete  |-> status = "complete",
      arguments |-> JSONstringify(args),
      result    |-> JSONstringify(result) ]

\* what DefaultToolCard puts on the screen
DefaultToolCard(name, status, args, result, isExpanded) ==
    [ card      |-> "DefaultToolCard",
      name      |-> name,
      status    |-> status,
      complete  |-> status = "complete",
      arguments |-> IF isExpanded THEN JSONstringify(args) ELSE Hidden,
      result    |-> IF isExpanded /\ result # Undefined /\ result # NULL
                    THEN JSONstringify(result)
                    ELSE Hidden ]

\* useDefaultTool({render}) is the one renderer the page registers: every
\* tool call of the chat is drawn by it, whatever its name
useDefaultTool(props, isExpanded) ==
    DefaultToolCard(props.name, props.status, props.args, props.result, isExpanded)

\* the card of the latest tool call in the chat
ChatCard ==
    IF toolCall = NULL THEN NULL ELSE useDefaultTool(toolCall, expanded)

\* the chevron button of DefaultToolCard
toggleExpanded ==
    /\ toolCall # NULL
    /\ Event
    /\ expanded' = ~expanded
    /\ last' = Handled("setExpanded", expanded, << Call("setExpanded", ~expanded) >>)
    /\ flushEffect(TRUE)
    /\ UNCHANGED <<pageVars, uploadVars, tweetVars, msgs, toolCall, responded, responses>>

\* Approve offered whatever has been responded
handleApproveAnytime ==
    /\ Event
    /\ responded' = "approved"
    /\ responses' = Append(responses, "onApprove")
    /\ last' = Handled("handleApprove", NULL,
                       << Call("setResponded", "approved"), Call("onApprove", NULL) >>)
    /\ flushEffect(TRUE)
    /\ UNCHANGED <<pageVars, uploadVars, tweetVars, msgs, toolCall, expanded>>

\* AnalysisProposalCard: "Let's Investigate", offered while responded is null
handleApprove ==
    /\ responded = NullStr
    /\ Event
    /\ responded' = "approved"
    /\ responses' = Append(responses, "onApprove")
    /\ last' = Handled("handleApprove", NULL,
                       << Call("setResponded", "approved"), Call("onApprove", NULL) >>)
    /\ flushEffect(TRUE)
    /\ UNCHANGED <<pageVars, uploadVars, tweetVars, msgs, toolCall, expanded>>

\* AnalysisProposalCard: "Skip", offered while responded is null
handleDeny ==
    /\ responded = NullStr
    /\ Event
    /\ responded' = "denied"
    /\ responses' = Append(responses, "onDeny")
    /\ last' = Handled("handleDeny", NULL,
                       << Call("setResponded", "denied"), Call("onDeny", NULL) >>)
    /\ flushEffect(TRUE)
    /\ UNCHANGED <<pageVars, uploadVars, tweetVars, msgs, toolCall, expanded>>

\* what AnalysisProposalCard puts below the proposed analyses
AnalysisProposalCard ==
    CASE responded = "approved" -> [text |-> "Investigation approved", buttons |-> {}]
      [] responded = "denied"   -> [text |-> "Investigation declined", buttons |-> {}]
      [] OTHER                  -> [text |-> NullStr,
                                    buttons |-> {"Let's Investigate", "Skip"}]

-----------------------------------------------------------------------------
(* The tool calls of the remote agent, as the chat receives them *)

ToolNames == DOMAIN TOOL_CONFIG \cup {"search_web"}

ToolResults == { Undefined, NULL, [ok |-> TRUE] }

\* the agent calls a tool: the chat shows a new card, not expanded.  The id
\* tells a tool call from the one before it.
toolCallStart ==
    /\ IF toolCall = NULL THEN TRUE ELSE toolCall.status = "complete"
    /\ Event
    /\ \E name \in ToolNames :
          toolCall' = [id     |-> IF toolCall = NULL THEN 0 ELSE 1 - toolCall.id,
                       name   |-> name,
                       status |-> "inProgress",
                       args   |-> [tool |-> name],
                       result |-> Undefined]
    /\ expanded' = FALSE
    /\ last' = NoHandler
    /\ UNCHANGED <<pageVars, stateRef, uploadVars, tweetVars, msgs, responded, responses>>

\* inProgress -> executing
toolCallExecuting ==
    /\ toolCall # NULL
    /\ toolCall.status = "inProgress"
    /\ toolCall' = [toolCall EXCEPT !.status = "executing"]
    /\ last' = NoHandler
    /\ UNCHANGED <<pageVars, stateRef, uploadVars, tweetVars, msgs, nEvents,
                   expanded, responded, responses>>

\* executing -> complete, with or without a result
toolCallComplete ==
    /\ toolCall # NULL
    /\ toolCall.status = "executing"
    /\ \E result \in ToolResults :
          toolCall' = [toolCall EXCEPT !.status = "complete", !.result = result]
    /\ last' = NoHandler
    /\ UNCHANGED <<pageVars, stateRef, uploadVars, tweetVars, msgs, nEvents,
                   expanded, responded, responses>>

Next ==
    \/ Render
    \/ SyncStateRef
    \/ handleDrop
    \/ onChange
    \/ handleDragOver
    \/ handleDragLeave
    \/ readerOnload
    \/ clearFile
    \/ handleCopyTweet
    \/ handlePostTweet
    \/ timeout
    \/ startEdit
    \/ setEditContent
    \/ saveEdit
    \/ cancelEdit
    \/ agentWrite
    \/ deliver
    \/ toggleExpanded
    \/ handleApprove
    \/ handleDeny
    \/ toolCallStart
    \/ toolCallExecuting
    \/ toolCallComplete

Spec == Init /\ [][Next]_vars

\* The dashboard once a document has been uploaded and the agent's tweets
\* have been delivered and rendered: the runs of Spec continued from there.
InitTweets ==
    /\ \E file \in Candidates :
          /\ ~notPdf(file)
          /\ ~tooLarge(file)
          /\ \E w \in AgentWrites(file.name) :
                /\ w.field = "tweets"
                /\ state = [INITIAL_STATE EXCEPT !.uploadedFile = UploadedFile(file),
                                                 !.tweets = w.value]
    /\ view = state
    /\ stateRef = state
    /\ toastMessage = NullStr
    /\ timers = 0
    /\ isDragging = FALSE
    /\ isLoading = FALSE
    /\ reads = <<>>
    /\ editingId = NullStr
    /\ editContent = Str("", 0)
    /\ msgs = <<>>
    /\ nEvents = MaxEvents - MaxTweetEvents
    /\ last = NoHandler
    /\ toolCall = NULL
    /\ expanded = FALSE
    /\ responded = NullStr
    /\ responses = <<>>

SpecTweets == InitTweets /\ [][Next]_vars

\* The steps of a run without the remote agent and without upload or clear:
\* the tweet actions, their timers, and React's rendering.
NextLocal ==
    \/ Render
    \/ SyncStateRef
    \/ handleCopyTweet
    \/ handlePostTweet
    \/ timeout
    \/ startEdit
    \/ setEditContent
    \/ saveEdit
    \/ cancelEdit

SpecLocal == InitTweets /\ [][NextLocal]_vars

-----------------------------------------------------------------------------
(* Claims *)

TenMiB == 10 * 1024 * 1024

Rejected(file) == file.type # "application/pdf" \/ file.size > TenMiB

CallsOf(l, fn) == SelectSeq(l.calls, LAMBDA c : c.fn = fn)

\* C1: a file whose MIME type is not application/pdf, or whose size exceeds
\* 10 MiB, is rejected without mutating state: handleFile starts no read for
\* it (so onFileUpload is never called for it), does not enter the loading
\* state, and leaves the shared state as it was; no read in flight and no
\* uploaded file ever comes from such a file.
C1_RejectWithoutMutation ==
    /\ (last.op = "handleFile" /\ Rejected(last.arg)) =>
          /\ state = last.pre
          /\ SetStateCalls(last) = <<>>
          /\ CallsOf(last, "setIsLoading") = <<>>
          /\ CallsOf(last, "readAsDataURL") = <<>>
          /\ CallsOf(last, "alert") # <<>>
          /\ (reads = <<>> => ~isLoading)
    /\ \A i \in 1..Len(reads) : ~Rejected(reads[i].file)
    /\ \A file \in Candidates :
          Rejected(file) => state.uploadedFile # UploadedFile(file)

\* C1 witness: an oversize PDF has been rejected (and a text file could be)
C1_Witness ==
    /\ last.op = "handleFile"
    /\ last.arg.type = "application/pdf"
    /\ last.arg.size > TenMiB
    /\ ~isLoading

\* C2: handleFileUpload(file) issues exactly one write, and its value has
\* uploadedFile = file and findings, redactedContent, tweets and summary
\* empty/null, whatever the prior state and the state its callback captured;
\* the same for a clear (file = null).
C2_UploadResetsResults ==
    last.op = "handleFileUpload" =>
       LET w == SetStateCalls(last)
       IN  /\ Len(w) = 1
           /\ w[1].val.uploadedFile = last.arg.file
           /\ w[1].val.findings = <<>>
           /\ w[1].val.redactedContent = <<>>
           /\ w[1].val.tweets = <<>>
           /\ w[1].val.summary = NULL
           /\ state = w[1].val

\* C2 witness: a new file is uploaded through a callback that captured a
\* state with results in it
C2_Witness ==
    /\ last.op = "handleFileUpload"
    /\ last.arg.file # NULL
    /\ last.arg.captured.findings # <<>>
    /\ state.uploadedFile = last.arg.file
    /\ state.findings = <<>>

Docs == { file.name : file \in Candidates }

\* C3: stale analysis is never shown against a new document: what the panels
\* show with an uploaded file was produced for that file, never for a
\* document uploaded before it.
C3_NoStaleAnalysis ==
    view.uploadedFile # NULL =>
       LET doc == view.uploadedFile.name
       IN  /\ \A i \in 1..Len(view.findings) : view.findings[i].title = doc
           /\ \A i \in 1..Len(view.redactedContent) :
                 view.redactedContent[i].speculation = doc
           /\ \A i \in 1..Len(view.tweets) :
                 view.tweets[i].content.txt \in Docs => view.tweets[i].content.txt = doc
           /\ view.summary # NULL => view.summary.txt = doc

\* the state s with newContent as the content of the tweets with this id
WithContent(s, id, newContent) ==
    [ s EXCEPT !.tweets =
        [ i \in 1..Len(s.tweets) |->
            IF s.tweets[i].id = id
            THEN [ id |-> s.tweets[i].id, content |-> newContent,
                   posted |-> s.tweets[i].posted ]
            ELSE s.tweets[i] ] ]

\* C4: Save changes only the content of the tweet(s) with the edited id,
\* relative to the shared state at the moment of Save: every other tweet,
\* the posted flags, the order and number of tweets and all other fields are
\* untouched.
C4_SaveChangesOnlyContent ==
    last.op = "saveEdit" =>
       state = WithContent(last.pre, last.arg.id, last.arg.newContent)

\* C5: Cancel leaves the stored state unchanged whatever the draft: it issues
\* no write and exits edit mode.
C5_CancelWritesNothing ==
    last.op = "cancelEdit" =>
       /\ state = last.pre
       /\ SetStateCalls(last) = <<>>
       /\ editingId = NullStr

\* C5 witness: an edit is cancelled whose draft differs from the stored
\* content of the edited tweet
C5_Witness ==
    /\ last.op = "cancelEdit"
    /\ \E i \in 1..Len(state.tweets) : state.tweets[i].id = last.arg.id
    /\ \A i \in 1..Len(state.tweets) :
          state.tweets[i].id = last.arg.id => state.tweets[i].content # last.arg.draft
    /\ editingId = NullStr

\* the state s with the tweets with this id posted
WithPosted(s, id) ==
    [ s EXCEPT !.tweets =
        [ i \in 1..Len(s.tweets) |->
            IF s.tweets[i].id = id
            THEN [ id |-> s.tweets[i].id, content |-> s.tweets[i].content,
                   posted |-> TRUE ]
            ELSE s.tweets[i] ] ]

\* C6: Post sets posted for the tweet with the posted id only and changes
\* nothing else in the state; posting an already-posted tweet leaves the
\* state as it was.
C6_PostSetsPostedOnly ==
    last.op = "handlePostTweet" =>
       /\ state = WithPosted(last.pre, last.arg)
       /\ (\A i \in 1..Len(last.pre.tweets) :
              last.pre.tweets[i].id = last.arg => last.pre.tweets[i].posted)
          => state = last.pre

InEditMode == { i \in Rendered : Editing(i) }

\* C7 as stated: at most one rendered tweet is in edit mode, and starting an
\* edit on tweet B moves edit mode to B, replaces the draft with B's stored
\* content and issues no write.
C7_AtMostOneTweetInEditMode ==
    /\ Cardinality(InEditMode) <= 1
    /\ last.op = "startEdit" =>
          /\ editingId = last.arg.tweet.id
          /\ editContent = last.arg.tweet.content
          /\ SetStateCalls(last) = <<>>
          /\ state = last.pre

\* C7: edit mode is held by one tweet id at a time: the rendered tweets in
\* edit mode all carry the id in editingId (one tweet when the ids of the
\* rendered tweets are distinct), and starting an edit on tweet B while
\* tweet A is being edited moves edit mode to B's id, replaces the draft with
\* B's stored content and issues no write, so A's draft is abandoned.
C7_EditModeHeldByOneId ==
    /\ \A i \in InEditMode : view.tweets[i].id = editingId
    /\ \A i, j \in InEditMode : view.tweets[i].id = view.tweets[j].id
    /\ (\A i, j \in Rendered : view.tweets[i].id = view.tweets[j].id => i = j)
          => Cardinality(InEditMode) <= 1
    /\ last.op = "startEdit" =>
          /\ editingId = last.arg.tweet.id
          /\ editContent = last.arg.tweet.content
          /\ SetStateCalls(last) = <<>>
          /\ state = last.pre
          /\ \A i \in Rendered :
                view.tweets[i].id # last.arg.tweet.id => ~Editing(i)

\* C7 witness: an edit is started on tweet B while tweet A, with another id,
\* is in edit mode
C7_Witness ==
    /\ last.op = "startEdit"
    /\ last.arg.editing # NullStr
    /\ last.arg.editing # last.arg.tweet.id
    /\ \E i \in Rendered : view.tweets[i].id = last.arg.editing
    /\ editingId = last.arg.tweet.id

\* the texts the agent gives its tweets, with the greatest length of each
AgentTweetContent ==
    UNION { UNION { { w.value[i].content : i \in 1..Len(w.value) }
                    : w \in { x \in AgentWrites(doc) : x.field = "tweets" } }
            : doc \in Docs }

\* C8 as stated: every content value committed by Save has length at most
\* 280, also for tweets stored with more than 280 characters.
C8_SaveCommitsAtMost280 ==
    last.op = "saveEdit" =>
       \A i \in 1..Len(SetStateCalls(last)) :
          \A j \in 1..Len(SetStateCalls(last)[i].val.tweets) :
             LET t == SetStateCalls(last)[i].val.tweets[j]
             IN  t.id = last.arg.id => t.content.len <= 280

\* C8: the edit control caps what the user enters, not what Save commits: a
\* content value committed by Save has length at most 280 unless it is a
\* text the agent stored with more than 280 characters, unchanged or only
\* shortened by the user.
C8_SaveWithinCapOrStored ==
    last.op = "saveEdit" =>
       \/ last.arg.newContent.len <= 280
       \/ \E c \in AgentTweetContent :
             /\ c.len > 280
             /\ c.txt = last.arg.newContent.txt
             /\ last.arg.newContent.len <= c.len

\* C8 witness: a tweet stored with more than 280 characters is saved with
\* 280 characters the user entered
C8_Witness ==
    /\ last.op = "saveEdit"
    /\ last.arg.newContent = Str("typed", 280)
    /\ \E i \in 1..Len(last.pre.tweets) :
          /\ last.pre.tweets[i].id = last.arg.id
          /\ last.pre.tweets[i].content.len > 280
    /\ \E i \in 1..Len(state.tweets) : state.tweets[i].content = Str("typed", 280)

\* C9: Copy makes no change to stored state: handleCopyTweet leaves every
\* field of the shared state as it was and issues no write; only the
\* clipboard and the toast change.
C9_CopyWritesNothing ==
    last.op = "handleCopyTweet" =>
       /\ state = last.pre
       /\ SetStateCalls(last) = <<>>
       /\ CallsOf(last, "clipboard.writeText") = << Call("clipboard.writeText", last.arg) >>
       /\ toastMessage = COPIED

\* C9 witness: a tweet of an analysed document has been copied
C9_Witness ==
    /\ last.op = "handleCopyTweet"
    /\ \E i \in 1..Len(state.tweets) : state.tweets[i].content = last.arg
    /\ state.uploadedFile # NULL
    /\ toastMessage = COPIED

SixFields ==
    { "uploadedFile", "analysisStatus", "findings", "redactedContent",
      "tweets", "summary" }

\* the handler has issued exactly one write, of all six fields, and the
\* shared state is that value when the handler returns
OneFullWrite(l) ==
    /\ Len(SetStateCalls(l)) = 1
    /\ DOMAIN SetStateCalls(l)[1].val = SixFields
    /\ state = SetStateCalls(l)[1].val

\* C10 as stated: file upload, tweet edit, tweet post and tweet copy each
\* issue exactly one full-state write in their handler.
C10_EveryLocalActionWritesOnce ==
    last.op \in { "handleFileUpload", "saveEdit", "handlePostTweet", "handleCopyTweet" }
       => OneFullWrite(last)

\* C10: file upload (and clear), tweet edit and tweet post each issue exactly
\* one write carrying all six fields, inside their handler, so before any
\* other action is handled; tweet copy issues no write at all.
C10_MutationsWriteOnceCopyNever ==
    /\ last.op \in { "handleFileUpload", "saveEdit", "handlePostTweet" }
          => OneFullWrite(last)
    /\ last.op = "handleCopyTweet" => Len(SetStateCalls(last)) = 0

\* C10 witness: an edit has been saved with one write of the whole state,
\* whose tweet carries the draft
C10_Witness ==
    /\ last.op = "saveEdit"
    /\ Len(SetStateCalls(last)) = 1
    /\ \E j \in 1..Len(state.tweets) :
          /\ state.tweets[j].id = last.arg.id
          /\ state.tweets[j].content = last.arg.newContent
          /\ state.tweets[j].content.txt = "typed"

\* C11: last writer wins per top-level field: a local tweet edit or post
\* targets tweets only, so the findings, redactedContent and summary in the
\* shared state after the handler are those before it (what the remote agent
\* last wrote there is not undone).
C11_LocalTweetWriteKeepsRemoteFields ==
    last.op \in { "saveEdit", "handlePostTweet" } =>
       /\ state.findings = last.pre.findings
       /\ state.redactedContent = last.pre.redactedContent
       /\ state.summary = last.pre.summary

\* C12: approving or denying the proposal card moves it to a terminal
\* state: once responded is approved or denied it never changes, the card
\* then offers no button, and onApprove and onDeny are invoked at most once
\* in total, by the response the card shows.
C12_ProposalRespondsOnce ==
    /\ [](/\ Len(responses) <= 1
          /\ responded = NullStr => responses = <<>>
          /\ responded = "approved" => responses = << "onApprove" >>
          /\ responded = "denied" => responses = << "onDeny" >>
          /\ responded # NullStr => AnalysisProposalCard.buttons = {})
    /\ [][responded # NullStr => responded' = responded]_vars

\* C12 witness: the card has been denied and another handler has run since
C12_Witness ==
    /\ responded = "denied"
    /\ responses = << "onDeny" >>
    /\ last.op \notin { "handleDeny", "none" }
    /\ AnalysisProposalCard.text = "Investigation declined"

Unrecognized(name) == name \notin DOMAIN TOOL_CONFIG

ResultPresent(call) == call.result # Undefined /\ call.result # NULL

\* C13: a tool call with an unrecognized name is drawn by the fallback card,
\* which shows its raw arguments exactly when expanded and its result exactly
\* when expanded with a result present; the card is in its complete visual
\* state exactly when the status is complete, and a card that has shown
\* complete never shows the non-complete state again.
C13_FallbackCardLifecycle ==
    /\ [](toolCall # NULL =>
            (Unrecognized(toolCall.name) =>
               /\ ChatCard.card = "DefaultToolCard"
               /\ ChatCard.name = toolCall.name
               /\ expanded => ChatCard.arguments = JSONstringify(toolCall.args)
               /\ ~expanded => ChatCard.arguments = Hidden
               /\ (expanded /\ ResultPresent(toolCall))
                     => ChatCard.result = JSONstringify(toolCall.result)
               /\ ~(expanded /\ ResultPresent(toolCall)) => ChatCard.result = Hidden
               /\ ChatCard.complete <=> toolCall.status = "complete"
               /\ toolCall.status \in {"inProgress", "executing", "complete"}))
    /\ [][(/\ toolCall # NULL
           /\ toolCall' # NULL
           /\ (IF toolCall # NULL /\ toolCall' # NULL
               THEN toolCall'.id = toolCall.id /\ Unrecognized(toolCall.name)
                    /\ ChatCard.complete
               ELSE FALSE))
             => ChatCard'.complete]_vars

\* C13 witness: the card of an unrecognized tool call, complete with a
\* result, is expanded
C13_Witness ==
    /\ toolCall # NULL
    /\ IF toolCall # NULL
       THEN /\ Unrecognized(toolCall.name)
            /\ toolCall.status = "complete"
            /\ ResultPresent(toolCall)
            /\ expanded
            /\ ChatCard.result = JSONstringify(toolCall.result)
            /\ ChatCard.complete
       ELSE FALSE

\* C14: a tool call named update_findings, update_redacted, update_tweets or
\* update_summary is drawn by the specialized renderer (its label and loading
\* text while not complete, the completed variant once complete), and the
\* fallback card is drawn only for the other names.
C14_SpecializedRenderers ==
    toolCall # NULL =>
       IF toolCall.name \in DOMAIN TOOL_CONFIG
       THEN ChatCard = AnalysisProgressCard(toolCall.name, toolCall.status)
       ELSE ChatCard.card = "DefaultToolCard"

\* C15: end to end: a valid upload leaves the state with the file's name and
\* all result fields empty, so that every panel shows its empty-state
\* message; once the page has rendered what the agent wrote, the Findings
\* panel shows exactly the n findings of the state in array order and the
\* Summary panel shows a non-empty summary without the empty-state message;
\* each panel shows its empty-state message exactly when its field is empty
\* or null.
C15_PanelsShowState ==
    LET shown == Panels(view)
    IN  /\ (last.op = "handleFileUpload" /\ last.arg.file # NULL) =>
              /\ state.uploadedFile.name = last.arg.file.name
              /\ Panels(state).findings.message # NoMessage
              /\ Panels(state).redacted.message # NoMessage
              /\ Panels(state).tweets.message # NoMessage
              /\ Panels(state).summary.message # NoMessage
        /\ Len(shown.findings.items) = Len(view.findings)
        /\ \A i \in 1..Len(view.findings) :
              /\ shown.findings.items[i].title = view.findings[i].title
              /\ shown.findings.items[i].severity = view.findings[i].severity
              /\ shown.findings.items[i].description = view.findings[i].description
        /\ (view.summary # NULL /\ view.summary # Str("", 0)) =>
              /\ shown.summary.markdown = view.summary
              /\ shown.summary.message = NoMessage
        /\ shown.findings.message # NoMessage <=> view.findings = <<>>
        /\ shown.redacted.message # NoMessage <=> view.redactedContent = <<>>
        /\ shown.tweets.message # NoMessage <=> view.tweets = <<>>
        /\ shown.summary.message # NoMessage
              <=> (view.summary = NULL \/ view.summary = Str("", 0))
        /\ view = state =>
              /\ Len(shown.findings.items) = Len(state.findings)
              /\ state.summary # NULL => shown.summary.markdown = state.summary

\* C15 witness: the page shows the uploaded file with the two findings and
\* the summary the agent wrote for it, the other two panels still empty
C15_Witness ==
    /\ view = state
    /\ view.uploadedFile # NULL
    /\ Len(Panels(view).findings.items) = 2
    /\ Panels(view).findings.items[1].severity = "high"
    /\ Panels(view).findings.items[2].severity = "low"
    /\ Panels(view).summary.message = NoMessage
    /\ Panels(view).tweets.message # NoMessage
    /\ Panels(view).redacted.message # NoMessage

Passes(file) == file.type = "application/pdf" /\ file.size <= TenMiB

\* C16: a file passes validation exactly when its declared MIME type is
\* application/pdf and its size is at most 10 MiB, whatever its name (a
\* zero-byte file and a file of exactly 10 MiB pass); handleFile starts one
\* read for a file that passes and none otherwise, only files that passed
\* are read, and the read of a file ends in one handleFileUpload call with
\* {name: the file's name, base64: its encoded bytes, mimeType:
\* application/pdf}, which takes that read out of flight.
C16_ValidationExact ==
    /\ [](/\ last.op = "handleFile" =>
                /\ Passes(last.arg) =>
                      CallsOf(last, "readAsDataURL")
                         = << Call("readAsDataURL", last.arg) >>
                /\ ~Passes(last.arg) => CallsOf(last, "readAsDataURL") = <<>>
                /\ Passes(last.arg) <=> CallsOf(last, "alert") = <<>>
          /\ \A i \in 1..Len(reads) : Passes(reads[i].file)
          /\ (last.op = "handleFileUpload" /\ last.arg.file # NULL) =>
                /\ Len(SetStateCalls(last)) = 1
                /\ last.arg.file.mimeType = "application/pdf"
                /\ \E file \in Candidates :
                      /\ Passes(file)
                      /\ last.arg.file = [ name     |-> file.name,
                                           base64   |-> [base64of |-> file.bytes],
                                           mimeType |-> "application/pdf" ])
    /\ [][(last'.op = "handleFileUpload" /\ last'.arg.file # NULL)
             => \E i \in 1..Len(reads) :
                   /\ reads' = RemoveAt(reads, i)
                   /\ last'.arg.file.name = reads[i].file.name]_vars

\* C16 witness: a file of exactly 10 MiB named b.txt, declared
\* application/pdf, has been uploaded
C16_Witness ==
    /\ last.op = "handleFileUpload"
    /\ last.arg.file # NULL
    /\ state.uploadedFile # NULL
    /\ IF state.uploadedFile # NULL
       THEN /\ state.uploadedFile.name = "b.txt"
            /\ \E file \in Candidates :
                  /\ file.name = "b.txt"
                  /\ file.size = TenMiB
                  /\ state.uploadedFile.base64 = [base64of |-> file.bytes]
       ELSE FALSE

\* C17: while a file is being encoded the component is in the loading
\* state: if the read of an accepted file is in flight then isLoading is
\* true, also when a second file is dropped before the first read completes,
\* and once no read is in flight isLoading is false.
C17_LoadingWhileReading ==
    isLoading <=> reads # <<>>

\* C18: the notification of a Copy or Post stays visible until the timer
\* started by that same action fires: the timers all run 2 seconds and fire
\* in the order they were started, so while any timer is pending the timer
\* of the latest action is, and the notification is on the screen.
C18_ToastUntilOwnTimer ==
    timers > 0 => toastMessage # NullStr

C20_RemoteUpdateDuringEdit ==
    /\ [][(/\ editingId # NullStr
           /\ msgs # <<>>
           /\ msgs' = Tail(msgs)
           /\ state' # state)
             => editingId' = editingId /\ editContent' = editContent]_vars
    /\ [](last.op = "saveEdit" =>
             /\ editingId = NullStr
             /\ state.tweets = WithContent(last.pre, last.arg.id, last.arg.newContent).tweets)

====
